---- MODULE Spec2Model ----
(***************************************************************************)
(* Model of tools/tavant_tools.py: create_tavant_status_report and the     *)
(* slide and table helpers it calls.                                        *)
(*                                                                          *)
(* A Python string is a sequence of tokens (<<>> is the empty string, a     *)
(* space is a token of its own), a Python list is a sequence, a dict is a   *)
(* function whose DOMAIN is its set of keys.  An argument of the call is a  *)
(* record [st, v]: st says whether the caller left it out ("absent"),       *)
(* passed None ("none"), passed a value of the declared type ("val") or a   *)
(* value of another type ("bad"); v is the value when st = "val".           *)
(***************************************************************************)
EXTENDS Integers, Sequences, FiniteSets, TLC

VARIABLES
    TAVANT_COLORS,  \* the module-level palette dict
    clock,          \* the wall clock datetime.now() reads, in ticks
    fs,             \* the filesystem: path -> [complete, deck]
    pc,             \* position of the running call ("idle" when none runs)
    args,           \* the arguments the caller passed to the running call
    prs,            \* the Presentation of the running call: its slides
    output_path,    \* the local output_path of the running call
    seen,           \* what the running call has read of the clock, how its
                    \* save went and where it raised
    exc,            \* the exception in flight, NoExc when none
    result,         \* what the last call returned or raised
    history         \* the calls that have ended, oldest first

vars == <<TAVANT_COLORS, clock, fs, pc, args, prs, output_path, seen, exc,
          result, history>>

----------------------------------------------------------------------------
(* Bounds of the model *)

MaxDeviations == 2   \* arguments in which a request of Requests differs
                     \* from BaseRequest
MaxLen == 7          \* longest list a request of TableRequests carries
MaxListDeviations == 1  \* lists in which a request of TableRequests
                        \* differs from BaseRequest
MaxTicks == 2        \* how far the clock advances
TicksPerSecond == 2  \* clock resolution: ticks in one second
MaxCalls == 2        \* calls in one run of SpecSeq or SpecPaths

(* Caps of the rendered lists *)

AccomplishmentsCap == 5
PrioritiesCap == 5
RisksCap == 3
MilestonesCap == 6
UpcomingCap == 3

----------------------------------------------------------------------------
(* Python built-ins the code uses *)

Min(a, b) == IF a < b THEN a ELSE b

\* s[:n]
Take(s, n) == SubSeq(s, 1, Min(Len(s), n))

\* d.get(key, "")
Get(d, key) == IF key \in DOMAIN d THEN d[key] ELSE <<>>

Digits == <<"0", "1", "2", "3", "4", "5", "6", "7", "8", "9">>

\* str(n) for n >= 0
RECURSIVE str(_)
str(n) == IF n < 10 THEN <<Digits[n + 1]>>
          ELSE str(n \div 10) \o <<Digits[(n % 10) + 1]>>

\* n formatted on two digits, as strftime's %d %H %M %S
TwoDigits(n) == <<Digits[((n \div 10) % 10) + 1], Digits[(n % 10) + 1]>>

\* name.replace(' ', '_')
\* a replace that leaves the spaces in
replace_nothing(s) == s

replace(s) == [i \in 1..Len(s) |-> IF s[i] = " " THEN "_" ELSE s[i]]

\* str(x) of an argument inside an f-string
Format(a) == IF a.st = "none" THEN <<"None">> ELSE a.v

\* truthiness of an argument: None and the empty value are false
Truthy(a) == CASE a.st = "none" -> FALSE
               [] a.st = "val" -> a.v # <<>>
               [] OTHER -> TRUE

----------------------------------------------------------------------------
(* Exceptions and the library objects the code builds *)

NoExc == [type |-> "", msg |-> ""]

Raise(type, msg) == [type |-> type, msg |-> msg]

\* What a block of statements leaves behind: the shapes it added to the
\* slide before it ended, and the exception that ended it (NoExc if none).
Part(shapes) == [err |-> NoExc, shapes |-> shapes]

Failed(e, shapes) == [err |-> e, shapes |-> shapes]

\* Statement blocks in sequence: the blocks after the first one that raises
\* do not run.
RECURSIVE Chain(_)
Chain(parts) ==
    IF parts = <<>> THEN Part(<<>>)
    ELSE IF Head(parts).err # NoExc THEN Head(parts)
    ELSE LET rest == Chain(Tail(parts))
         IN [err |-> rest.err, shapes |-> Head(parts).shapes \o rest.shapes]

\* slide.shapes.add_shape(MSO_SHAPE.RECTANGLE, ...) filled with a colour
Rectangle(name, colour) ==
    [kind |-> "rectangle", name |-> name, fill |-> colour, text |-> <<>>]

\* the colour of a run nothing has coloured
NoColour == <<>>

\* one paragraph of a text frame
Paragraph(text, colour) == [text |-> text, colour |-> colour]

\* slide.shapes.add_textbox(...) after its paragraphs are set
TextBox(name, paras) == [kind |-> "textbox", name |-> name, paras |-> paras]

\* slide.shapes.add_table(rows, cols, ...).table: rows x cols empty cells
NewTable(name, rows, cols) ==
    [kind |-> "table", name |-> name, rows |-> rows, cols |-> cols,
     cells |-> [rc \in (0..(rows - 1)) \X (0..(cols - 1)) |-> <<>>],
     written |-> <<>>]

\* table.cell(r, c).text = text, for each write of ws in order; table.cell
\* raises IndexError for a cell outside the table.
RECURSIVE ApplyWrites(_, _)
ApplyWrites(table, ws) ==
    IF ws = <<>> THEN Part(<<table>>)
    ELSE LET w == Head(ws)
             logged == [table EXCEPT !.written = Append(@, <<w.r, w.c>>)]
         IN IF w.r >= table.rows \/ w.c >= table.cols
            THEN Failed(Raise("IndexError", "list index out of range"),
                        <<logged>>)
            ELSE ApplyWrites([logged EXCEPT !.cells[<<w.r, w.c>>] = w.text],
                             Tail(ws))

\* the writes of the header row
HeaderWrites(headers) ==
    [i \in 1..Len(headers) |-> [r |-> 0, c |-> i - 1, text |-> <<headers[i]>>]]

\* the writes of the data rows: row i + 1 for the i-th record of data,
\* column j from Cell[i, j]
DataWrites(n, cols, Cell) ==
    [k \in 1..(n * cols) |->
        LET i == (k - 1) \div cols
            j == (k - 1) % cols
        IN [r |-> i + 1, c |-> j, text |-> Cell[i, j]]]

\* len(x) of an argument: TypeError for None
LenError == Raise("TypeError", "object of type 'NoneType' has no len()")

----------------------------------------------------------------------------
(* The table helpers *)

add_priorities_table(priorities) ==
    IF priorities.st # "val" THEN Failed(LenError, <<>>)
    ELSE
    LET rows == Min(Len(priorities.v), PrioritiesCap) + 1
        data == Take(priorities.v, PrioritiesCap)
        Cell == [i \in 0..(Len(data) - 1), j \in 0..2 |->
                    CASE j = 0 -> str(i + 1)
                      [] j = 1 -> Get(data[i + 1], "description")
                      [] j = 2 -> Get(data[i + 1], "owner")]
    IN ApplyWrites(NewTable("priorities", rows, 3),
                   HeaderWrites(<<"#", "Description", "Owner">>)
                   \o DataWrites(Len(data), 3, Cell))

\* add_risks_table without the cap: every record gets a row
add_risks_table_uncapped(risks) ==
    IF risks.st # "val" THEN Failed(LenError, <<>>)
    ELSE
    LET rows == Len(risks.v) + 1
        data == risks.v
        Cell == [i \in 0..(Len(data) - 1), j \in 0..4 |->
                    CASE j = 0 -> str(i + 1)
                      [] j = 1 -> Get(data[i + 1], "description")
                      [] j = 2 -> Get(data[i + 1], "owner")
                      [] j = 3 -> Get(data[i + 1], "target_date")
                      [] j = 4 -> Get(data[i + 1], "status")]
    IN ApplyWrites(NewTable("risks", rows, 5),
                   HeaderWrites(<<"#", "Action Item", "Owner", "Target Date",
                                  "Status">>)
                   \o DataWrites(Len(data), 5, Cell))

add_risks_table(risks) ==
    IF risks.st # "val" THEN Failed(LenError, <<>>)
    ELSE
    LET rows == Min(Len(risks.v), RisksCap) + 1
        data == Take(risks.v, RisksCap)
        Cell == [i \in 0..(Len(data) - 1), j \in 0..4 |->
                    CASE j = 0 -> str(i + 1)
                      [] j = 1 -> Get(data[i + 1], "description")
                      [] j = 2 -> Get(data[i + 1], "owner")
                      [] j = 3 -> Get(data[i + 1], "target_date")
                      [] j = 4 -> Get(data[i + 1], "status")]
    IN ApplyWrites(NewTable("risks", rows, 5),
                   HeaderWrites(<<"#", "Action Item", "Owner", "Target Date",
                                  "Status">>)
                   \o DataWrites(Len(data), 5, Cell))

add_milestones_table(milestones) ==
    IF milestones.st # "val" THEN Failed(LenError, <<>>)
    ELSE
    LET rows == Min(Len(milestones.v), MilestonesCap) + 1
        data == Take(milestones.v, MilestonesCap)
        Cell == [i \in 0..(Len(data) - 1), j \in 0..3 |->
                    CASE j = 0 -> str(i + 1)
                      [] j = 1 -> Get(data[i + 1], "description")
                      [] j = 2 -> Get(data[i + 1], "target_date")
                      [] j = 3 -> Get(data[i + 1], "status")]
    IN ApplyWrites(NewTable("milestones", rows, 4),
                   HeaderWrites(<<"#", "Milestone Description", "Target Date",
                                  "Status">>)
                   \o DataWrites(Len(data), 4, Cell))

\* add_upcoming_table cutting the list from the wrong end: the last records
add_upcoming_table_tail(upcoming) ==
    IF upcoming.st # "val" THEN Failed(LenError, <<>>)
    ELSE
    LET rows == Min(Len(upcoming.v), UpcomingCap) + 1
        data == SubSeq(upcoming.v, Len(upcoming.v) - (rows - 1) + 1,
                       Len(upcoming.v))
        Cell == [i \in 0..(Len(data) - 1), j \in 0..2 |->
                    CASE j = 0 -> Get(data[i + 1], "description")
                      [] j = 1 -> Get(data[i + 1], "target_date")
                      [] j = 2 -> Get(data[i + 1], "owner")]
    IN ApplyWrites(NewTable("upcoming", rows, 3),
                   HeaderWrites(<<"Milestone", "Target Date", "Owner">>)
                   \o DataWrites(Len(data), 3, Cell))

add_upcoming_table(upcoming) ==
    IF upcoming.st # "val" THEN Failed(LenError, <<>>)
    ELSE
    LET rows == Min(Len(upcoming.v), UpcomingCap) + 1
        data == Take(upcoming.v, UpcomingCap)
        Cell == [i \in 0..(Len(data) - 1), j \in 0..2 |->
                    CASE j = 0 -> Get(data[i + 1], "description")
                      [] j = 1 -> Get(data[i + 1], "target_date")
                      [] j = 2 -> Get(data[i + 1], "owner")]
    IN ApplyWrites(NewTable("upcoming", rows, 3),
                   HeaderWrites(<<"Milestone", "Target Date", "Owner">>)
                   \o DataWrites(Len(data), 3, Cell))

\* the accomplishments text box: one paragraph per entry of
\* accomplishments[:5]; a new text frame has one empty paragraph
accomplishments_box(accomplishments) ==
    IF accomplishments.st # "val"
    THEN Failed(Raise("TypeError", "'NoneType' object is not subscriptable"),
                <<TextBox("accomplishments", <<Paragraph(<<>>, NoColour)>>)>>)
    ELSE
    LET data == Take(accomplishments.v, AccomplishmentsCap)
        paras == IF data = <<>> THEN <<Paragraph(<<>>, NoColour)>>
                 ELSE [i \in 1..Len(data) |->
                          Paragraph(<<"bullet ">> \o data[i],
                                    TAVANT_COLORS["dark"])]
    IN Part(<<TextBox("accomplishments", paras)>>)

add_section_header(text) ==
    [Rectangle("section_header", TAVANT_COLORS["accent"])
        EXCEPT !.text = <<text>>]

add_footer ==
    TextBox("footer", <<Paragraph(<<"TAVANT">>, TAVANT_COLORS["accent"])>>)

----------------------------------------------------------------------------
(* datetime.now().strftime(...): the clock counts ticks from the start of   *)
(* day 0; the calendar date is kept as the number of the day.               *)

SecondOf(t) == t \div TicksPerSecond

DayOf(t) == SecondOf(t) \div 86400

\* the run starts in the last second of day 0
StartClock == 86399 * TicksPerSecond

\* strftime("%B %d, %Y")
strftime_date(t) == <<"day ">> \o str(DayOf(t))

\* strftime("%Y%m%d_%H%M%S")
strftime_stamp(t) ==
    LET s == SecondOf(t) % 86400
    IN str(DayOf(t)) \o <<"_">> \o TwoDigits(s \div 3600)
       \o TwoDigits((s \div 60) % 60) \o TwoDigits(s % 60)

\* paragraph.text = x: TypeError unless x is a string
TextError == Raise("TypeError", "expected unicode string")

----------------------------------------------------------------------------
(* The slide builders: each adds a blank slide and then its shapes.  The    *)
(* value is the shapes the slide holds when the builder ends, and the       *)
(* exception that ended it.                                                 *)

create_title_slide(project_name, period_label, today) ==
    Chain(<<
        Part(<<Rectangle("background", TAVANT_COLORS["primary"]),
               Rectangle("accent_bar", TAVANT_COLORS["accent"]),
               TextBox("brand", <<Paragraph(<<"TAVANT">>,
                                            TAVANT_COLORS["accent"])>>),
               TextBox("title", <<Paragraph(<<"WEEKLY STATUS REPORT">>,
                                            TAVANT_COLORS["white"])>>),
               TextBox("project",
                       <<Paragraph(<<"Project: ">> \o Format(project_name),
                                   TAVANT_COLORS["white"])>>),
               TextBox("date", <<Paragraph(strftime_date(today),
                                           TAVANT_COLORS["accent"])>>)>>),
        IF period_label.st = "val"
        THEN Part(<<TextBox("period", <<Paragraph(period_label.v,
                                                  TAVANT_COLORS["white"])>>)>>)
        ELSE Failed(TextError,
                    <<TextBox("period", <<Paragraph(<<>>, NoColour)>>)>>)
    >>)

create_executive_summary_slide(accomplishments, priorities, risks) ==
    Chain(<<
        Part(<<TextBox("title", <<Paragraph(<<"Executive Summary">>,
                                            TAVANT_COLORS["dark"])>>),
               Rectangle("underline", TAVANT_COLORS["accent"]),
               add_section_header("Key Accomplishments for Last Period")>>),
        accomplishments_box(accomplishments),
        Part(<<add_section_header("Top Priorities for Next Period")>>),
        add_priorities_table(priorities),
        Part(<<add_section_header("Key Risks, Issues and Action Items")>>),
        add_risks_table(risks),
        Part(<<add_footer>>)
    >>)

create_milestones_slide(milestones, upcoming) ==
    Chain(<<
        Part(<<TextBox("title", <<Paragraph(<<"Key Milestones">>,
                                            TAVANT_COLORS["dark"])>>),
               Rectangle("underline", TAVANT_COLORS["accent"]),
               add_section_header("Key Milestones and Status")>>),
        add_milestones_table(milestones),
        Part(<<add_section_header("Upcoming Key Milestones")>>),
        add_upcoming_table(upcoming),
        Part(<<add_footer>>)
    >>)

\* a closing slide whose brand label is added only with the contact
create_thank_you_slide_brand_with_contact(contact_info) ==
    Chain(<<
        Part(<<Rectangle("background", TAVANT_COLORS["primary"]),
               Rectangle("accent_bar", TAVANT_COLORS["accent"]),
               TextBox("thank_you", <<Paragraph(<<"THANK YOU">>,
                                                TAVANT_COLORS["white"])>>)>>),
        IF ~Truthy(contact_info) THEN Part(<<>>)
        ELSE IF contact_info.st = "val"
        THEN Part(<<TextBox("brand", <<Paragraph(<<"TAVANT">>,
                                                 TAVANT_COLORS["accent"])>>),
                    TextBox("contact", <<Paragraph(contact_info.v,
                                                   TAVANT_COLORS["white"])>>)>>)
        ELSE Failed(TextError,
                    <<TextBox("contact", <<Paragraph(<<>>, NoColour)>>)>>)
    >>)

create_thank_you_slide(contact_info) ==
    Chain(<<
        Part(<<Rectangle("background", TAVANT_COLORS["primary"]),
               Rectangle("accent_bar", TAVANT_COLORS["accent"]),
               TextBox("thank_you", <<Paragraph(<<"THANK YOU">>,
                                                TAVANT_COLORS["white"])>>),
               TextBox("brand", <<Paragraph(<<"TAVANT">>,
                                            TAVANT_COLORS["accent"])>>)>>),
        IF ~Truthy(contact_info) THEN Part(<<>>)
        ELSE IF contact_info.st = "val"
        THEN Part(<<TextBox("contact", <<Paragraph(contact_info.v,
                                                   TAVANT_COLORS["white"])>>)>>)
        ELSE Failed(TextError,
                    <<TextBox("contact", <<Paragraph(<<>>, NoColour)>>)>>)
    >>)

----------------------------------------------------------------------------
(* Arguments and the signature of create_tavant_status_report *)

Absent == [st |-> "absent", v |-> <<>>]
None == [st |-> "none", v |-> <<>>]
Bad == [st |-> "bad", v |-> <<>>]
Val(x) == [st |-> "val", v |-> x]

ArgNames == {"project_name", "period_label", "accomplishments", "priorities",
             "risks", "milestones", "upcoming_milestones", "contact_info",
             "output_path"}

\* the parameters the signature gives a default
Defaults == [upcoming_milestones |-> None, contact_info |-> Val(<<>>),
             output_path |-> None]

\* calling with a parameter that has no default left out raises TypeError
\* before the body runs
BindError(a) ==
    IF \E f \in ArgNames \ DOMAIN Defaults : a[f].st = "absent"
    THEN Raise("TypeError", "missing required positional argument")
    ELSE NoExc

\* the parameters as the body sees them
Bind(a) == [f \in ArgNames |->
               IF a[f].st = "absent" /\ f \in DOMAIN Defaults
               THEN Defaults[f] ELSE a[f]]

\* x or []
OrEmpty(a) == IF Truthy(a) THEN a ELSE Val(<<>>)

\* one presentation kept for all calls: it still holds the slides of the
\* call before
PresentationShared ==
    IF history = <<>> THEN <<>> ELSE history[Len(history)].prs

\* Presentation(): a new presentation has no slides
Presentation == <<>>

\* a synthesized path that leaves the project name out
SynthesizePathNoName(project_name, t) ==
    [err |-> NoExc,
     path |-> <<"Tavant_WSR_">> \o strftime_stamp(t) \o <<".pptx">>]

\* f"Tavant_WSR_{project_name.replace(' ', '_')}_{timestamp}.pptx"
SynthesizePath(project_name, t) ==
    IF project_name.st # "val"
    THEN [err |-> Raise("AttributeError",
                        "'NoneType' object has no attribute 'replace'"),
          path |-> <<>>]
    ELSE [err |-> NoExc,
          path |-> <<"Tavant_WSR_">> \o replace(project_name.v) \o <<"_">>
                   \o strftime_stamp(t) \o <<".pptx">>]

\* a path the process cannot create a file at
Unwritable(path) == path = <<>> \/ path[1] = "/ro/"

\* the dict the call returns when the save is done
SuccessResult(path) ==
    [success |-> TRUE, file_path |-> path, slides_created |-> 4,
     message |-> "Tavant Status Report created successfully"]

\* the dict the except clause returns
FailureResult(e) == [success |-> FALSE, error |-> e.msg]

NoResult == [kind |-> "none"]
Returned(d) == [kind |-> "return", value |-> d]
Raised(e) == [kind |-> "raise", exc |-> e]

\* an except clause that catches only the errors of the save
HandleOnlyOSError(e) ==
    IF e.type \in {"OSError", "PermissionError"}
    THEN Returned([success |-> FALSE, error |-> e.msg])
    ELSE Raised(e)

\* except Exception as e: every exception the body raises ends the call
\* with the failure dict
Handle(e) == Returned(FailureResult(e))

\* nothing read yet: no clock reading (-1), no save and no path handed to
\* it, no exception
Unseen == [date |-> -1, stamp |-> -1, io |-> "", path |-> <<>>,
           raised_at |-> ""]

\* s with the statement an exception e came from noted
Note(s, e, at) == IF e # NoExc THEN [s EXCEPT !.raised_at = at] ELSE s

\* the file prs.save leaves at a path
File(complete, deck) == [complete |-> complete, deck |-> deck]

\* a save that keeps a second copy beside the file
WriteWithBackup(files, path, file) ==
    [q \in DOMAIN files \cup {path, path \o <<".bak">>} |->
        IF q \in {path, path \o <<".bak">>} THEN file ELSE files[q]]

Write(files, path, file) ==
    [q \in DOMAIN files \cup {path} |-> IF q = path THEN file ELSE files[q]]

\* the record of a call that has ended
CallRecord(a, s, p, r) == [args |-> a, seen |-> s, prs |-> p, result |-> r]

----------------------------------------------------------------------------
(* The call, statement by statement *)

\* the caller calls create_tavant_status_report(**a)
Call(a) ==
    /\ pc = "idle"
    /\ args' = a
    /\ prs' = Presentation
    /\ seen' = Unseen
    /\ exc' = BindError(a)
    /\ output_path' = Bind(a).output_path
    /\ IF BindError(a) # NoExc
       THEN /\ pc' = "idle"
            /\ result' = Raised(BindError(a))
            /\ history' = Append(history,
                                CallRecord(a, Unseen, <<>>, result'))
       ELSE /\ pc' = "title"
            /\ result' = NoResult
            /\ UNCHANGED history
    /\ UNCHANGED <<TAVANT_COLORS, clock, fs>>

\* one slide builder: the slide is added, then the next statement or the
\* except clause
Build(at, slide, next) ==
    /\ pc = at
    /\ prs' = Append(prs, slide.shapes)
    /\ exc' = slide.err
    /\ pc' = IF slide.err # NoExc THEN "except" ELSE next
    /\ seen' = Note(IF at = "title" THEN [seen EXCEPT !.date = clock]
                    ELSE seen, slide.err, at)
    /\ UNCHANGED <<TAVANT_COLORS, clock, fs, args, output_path, result,
                   history>>

TitleSlide ==
    Build("title",
          create_title_slide(Bind(args).project_name,
                             Bind(args).period_label, clock),
          "summary")

SummarySlide ==
    Build("summary",
          create_executive_summary_slide(Bind(args).accomplishments,
                                         Bind(args).priorities,
                                         Bind(args).risks),
          "milestones")

MilestonesSlide ==
    Build("milestones",
          create_milestones_slide(Bind(args).milestones,
                                  OrEmpty(Bind(args).upcoming_milestones)),
          "thank_you")

ThankYouSlide ==
    Build("thank_you", create_thank_you_slide(Bind(args).contact_info),
          "path")

\* if not output_path: synthesize it
ResolvePath ==
    /\ pc = "path"
    /\ IF Truthy(output_path)
       THEN /\ pc' = "save"
            /\ UNCHANGED <<output_path, seen, exc>>
       ELSE LET p == SynthesizePath(Bind(args).project_name, clock)
            IN /\ seen' = Note([seen EXCEPT !.stamp = clock], p.err, "path")
               /\ exc' = p.err
               /\ IF p.err # NoExc
                  THEN pc' = "except" /\ UNCHANGED output_path
                  ELSE pc' = "save" /\ output_path' = Val(p.path)
    /\ UNCHANGED <<TAVANT_COLORS, clock, fs, args, prs, result, history>>

\* prs.save(output_path): the file cannot be created, or it is written, or
\* the write breaks off and leaves what it had written
Save ==
    /\ pc = "save"
    /\ \/ /\ Unwritable(output_path.v)
          /\ exc' = Raise("PermissionError", "Permission denied")
          /\ seen' = [seen EXCEPT !.io = "denied", !.path = output_path.v,
                                !.raised_at = "save"]
          /\ pc' = "except"
          /\ UNCHANGED fs
       \/ /\ ~Unwritable(output_path.v)
          /\ fs' = Write(fs, output_path.v, File(TRUE, prs))
          /\ seen' = [seen EXCEPT !.io = "written", !.path = output_path.v]
          /\ pc' = "return"
          /\ UNCHANGED exc
       \/ /\ ~Unwritable(output_path.v)
          /\ fs' = Write(fs, output_path.v, File(FALSE, <<>>))
          /\ exc' = Raise("OSError", "No space left on device")
          /\ seen' = [seen EXCEPT !.io = "broken", !.path = output_path.v,
                                !.raised_at = "save"]
          /\ pc' = "except"
    /\ UNCHANGED <<TAVANT_COLORS, clock, args, prs, output_path, result,
                   history>>

\* return {"success": True, ...}
Return ==
    /\ pc = "return"
    /\ pc' = "idle"
    /\ result' = Returned(SuccessResult(output_path.v))
    /\ history' = Append(history, CallRecord(args, seen, prs, result'))
    /\ UNCHANGED <<TAVANT_COLORS, clock, fs, args, prs, output_path, seen,
                   exc>>

\* except Exception as e: return {"success": False, "error": str(e)}
Except ==
    /\ pc = "except"
    /\ pc' = "idle"
    /\ result' = Handle(exc)
    /\ history' = Append(history, CallRecord(args, seen, prs, result'))
    /\ UNCHANGED <<TAVANT_COLORS, clock, fs, args, prs, output_path, seen,
                   exc>>

\* time passes
Tick ==
    /\ clock < StartClock + MaxTicks
    /\ clock' = clock + 1
    /\ UNCHANGED <<TAVANT_COLORS, fs, pc, args, prs, output_path, seen, exc,
                   result, history>>

----------------------------------------------------------------------------
(* The requests the caller makes *)

\* the k-th record of a list: field f holds the text "f k".  In a sparse
\* list record k lacks its (k mod (number of fields + 1))-th field.
Item(k, fields, sparse) ==
    LET hole == k % (Len(fields) + 1)
        keys == {fields[i] : i \in {j \in 1..Len(fields) :
                                      ~(sparse /\ j = hole)}}
    IN [f \in keys |-> <<f, " ">> \o str(k)]

ListOf(n, fields, sparse) == [k \in 1..n |-> Item(k, fields, sparse)]

Strings(n) == [k \in 1..n |-> <<"done ">> \o str(k)]

PriorityFields == <<"description", "owner">>
RiskFields == <<"description", "owner", "target_date", "status">>
MilestoneFields == <<"description", "target_date", "status">>
UpcomingFields == <<"description", "target_date", "owner">>

BaseRequest ==
    [project_name |-> Val(<<"Apollo">>),
     period_label |-> Val(<<"Week Ending Dec 13, 2025">>),
     accomplishments |-> Val(Strings(1)),
     priorities |-> Val(ListOf(1, PriorityFields, FALSE)),
     risks |-> Val(ListOf(1, RiskFields, FALSE)),
     milestones |-> Val(ListOf(1, MilestoneFields, FALSE)),
     upcoming_milestones |-> Val(ListOf(1, UpcomingFields, FALSE)),
     contact_info |-> Absent,
     output_path |-> Absent]

Lists(fields, max, sparse) ==
    {Val(ListOf(n, fields, sp)) : n \in 0..max, sp \in sparse}

ArgOrder == <<"project_name", "period_label", "accomplishments",
              "priorities", "risks", "milestones", "upcoming_milestones",
              "contact_info", "output_path">>

\* the requests that differ from r in at most k of the arguments named in
\* names, each changed argument taken from values
RECURSIVE Vary(_, _, _, _)
Vary(r, names, k, values) ==
    IF names = <<>> \/ k = 0 THEN {r}
    ELSE LET f == Head(names)
         IN Vary(r, Tail(names), k, values)
            \cup UNION {Vary([r EXCEPT ![f] = v], Tail(names), k - 1, values) :
                          v \in values[f] \ {r[f]}}

\* the values the caller passes for each argument
ArgValues ==
    [project_name |-> {Val(<<"Apollo">>), Val(<<"My", " ", "App">>),
                       Val(<<"My", "_", "App">>), None},
     period_label |-> {BaseRequest.period_label, None},
     accomplishments |-> {Val(Strings(n)) : n \in 0..1} \cup {None},
     priorities |-> Lists(PriorityFields, 1, {FALSE})
                    \cup {Absent, None},
     risks |-> Lists(RiskFields, 1, {FALSE}) \cup {Absent, None},
     milestones |-> Lists(MilestoneFields, 1, {FALSE})
                    \cup {Absent, None},
     upcoming_milestones |-> Lists(UpcomingFields, 1, {FALSE})
                             \cup {Absent, None},
     contact_info |-> {Absent, None, Val(<<>>), Val(<<"pm@tavant.com">>),
                       Bad},
     output_path |-> {Absent, None, Val(<<>>), Val(<<"out.pptx">>),
                      Val(<<"/ro/", "out.pptx">>)}]

Requests == Vary(BaseRequest, ArgOrder, MaxDeviations, ArgValues)

\* well-formed lists of every length up to MaxLen, with and without
\* missing fields
ListValues ==
    [project_name |-> {BaseRequest.project_name},
     period_label |-> {BaseRequest.period_label},
     accomplishments |-> {Val(Strings(n)) : n \in 0..MaxLen},
     priorities |-> Lists(PriorityFields, MaxLen, BOOLEAN),
     risks |-> Lists(RiskFields, MaxLen, BOOLEAN),
     milestones |-> Lists(MilestoneFields, MaxLen, BOOLEAN),
     upcoming_milestones |-> Lists(UpcomingFields, MaxLen, BOOLEAN),
     contact_info |-> {Absent},
     output_path |-> {Absent}]

TableRequests == Vary(BaseRequest, ArgOrder, MaxListDeviations, ListValues)

\* the requests of a run of several calls: the base request, with and
\* without a contact and an output path, and one that fails
SeqRequests ==
    {BaseRequest,
     [BaseRequest EXCEPT !.contact_info = Val(<<"pm@tavant.com">>)],
     [BaseRequest EXCEPT !.contact_info = Val(<<>>)],
     [BaseRequest EXCEPT !.output_path = Val(<<"out.pptx">>)],
     [BaseRequest EXCEPT !.output_path = Val(<<"/ro/", "out.pptx">>)],
     [BaseRequest EXCEPT !.priorities = None]}

\* requests that leave the output path to the call: absent, None or empty,
\* under project names that differ only in a space and one that differs more
PathRequests ==
    {BaseRequest,
     [BaseRequest EXCEPT !.project_name = Val(<<"My", "_", "App">>),
                         !.output_path = None],
     [BaseRequest EXCEPT !.project_name = Val(<<"My", " ", "App">>),
                         !.output_path = Val(<<>>)]}

----------------------------------------------------------------------------
(* Specifications *)

Init ==
    /\ TAVANT_COLORS = [primary |-> <<0, 0, 0>>, accent |-> <<242, 101, 34>>,
                        white |-> <<255, 255, 255>>, dark |-> <<51, 51, 51>>,
                        light |-> <<245, 245, 245>>]
    /\ clock = StartClock
    /\ fs = <<>>
    /\ pc = "idle"
    /\ args = BaseRequest
    /\ prs = <<>>
    /\ output_path = None
    /\ seen = Unseen
    /\ exc = NoExc
    /\ result = NoResult
    /\ history = <<>>

Step ==
    \/ TitleSlide
    \/ SummarySlide
    \/ MilestonesSlide
    \/ ThankYouSlide
    \/ ResolvePath
    \/ Save
    \/ Return
    \/ Except

\* one call of any request
Next ==
    \/ history = <<>> /\ \E a \in Requests : Call(a)
    \/ Step
    \/ Tick

Spec == Init /\ [][Next]_vars

\* one call of a request with long lists
NextTables ==
    \/ history = <<>> /\ \E a \in TableRequests : Call(a)
    \/ Step

SpecTables == Init /\ [][NextTables]_vars

\* several calls, one after the other
NextSeq ==
    \/ Len(history) < MaxCalls /\ \E a \in SeqRequests : Call(a)
    \/ Step
    \/ Tick

SpecSeq == Init /\ [][NextSeq]_vars

\* several calls that all synthesize their path
NextPaths ==
    \/ Len(history) < MaxCalls /\ \E a \in PathRequests : Call(a)
    \/ Step
    \/ Tick

SpecPaths == Init /\ [][NextPaths]_vars

----------------------------------------------------------------------------
(* Vocabulary of the properties *)

\* a call has ended and nothing runs
Ended == pc = "idle" /\ result.kind # "none"

\* the call that ended returned the success dict
Succeeded == Ended /\ result.kind = "return" /\ result.value.success

\* the call that ended returned the failure dict
FailedResult == Ended /\ result.kind = "return" /\ ~result.value.success

Range(f) == {f[i] : i \in DOMAIN f}

\* which of the four slides a slide is, from the shape only it carries
SlideKind(slide) ==
    LET names == {sh.name : sh \in Range(slide)}
    IN CASE "project" \in names -> "title"
         [] "accomplishments" \in names -> "summary"
         [] "thank_you" \in names -> "thank_you"
         [] "title" \in names -> "milestones"
         [] OTHER -> "blank"

SlideKinds(deck) == [i \in 1..Len(deck) |-> SlideKind(deck[i])]

FixedOrder == <<"title", "summary", "milestones", "thank_you">>

\* the shape of a slide with a given name
ShapeNamed(slide, name) == CHOOSE sh \in Range(slide) : sh.name = name

HasShape(slide, name) == \E sh \in Range(slide) : sh.name = name

\* the number of rows a table has cells for
RowCount(table) == Cardinality({rc[1] : rc \in DOMAIN table.cells})

\* the bullets of the accomplishments box
Bullets(box) == {i \in DOMAIN box.paras :
                    box.paras[i].text # <<>> /\ box.paras[i].text[1] = "bullet "}

\* the caller passed a value of the declared type for f
Supplied(a, f) == a[f].st = "val"

\* a request the input schema accepts: the three required fields are there,
\* every other field is left out or of its declared type
ValidRequest(a) ==
    /\ \A f \in {"project_name", "period_label", "accomplishments"} :
          Supplied(a, f)
    /\ \A f \in ArgNames : a[f].st \in {"val", "absent"}

\* the environment let the save through
SaveNotRefused == seen.io \notin {"denied", "broken"}

----------------------------------------------------------------------------
(* C1 *)

\* C1: for any valid request, the call succeeds, the produced deck holds
\* exactly 4 slides in the order Title, Executive Summary, Milestones,
\* Thank-You, and the result reports slides_created = 4, whatever the
\* lists and contact_info are.
C1_FourSlides ==
    (Ended /\ ValidRequest(args) /\ SaveNotRefused) =>
        /\ Succeeded
        /\ result.value.slides_created = 4
        /\ SlideKinds(prs) = FixedOrder
        /\ fs[result.value.file_path].deck = prs

\* what holds of C1 on the code: a call that succeeds has built the four
\* slides in the fixed order
SuccessHasFourSlides ==
    Succeeded => /\ result.value.slides_created = 4
                 /\ SlideKinds(prs) = FixedOrder
                 /\ fs[result.value.file_path].deck = prs

----------------------------------------------------------------------------
(* C3 *)

OptionalLists == {"priorities", "risks", "milestones", "upcoming_milestones"}

\* the request with every optional list that is left out or None replaced
\* by the empty list
WithEmptyLists(a) ==
    [f \in ArgNames |-> IF f \in OptionalLists /\ a[f].st \in {"absent", "none"}
                        THEN Val(<<>>) ELSE a[f]]

TableSlide == [priorities |-> 2, risks |-> 2, milestones |-> 3,
               upcoming_milestones |-> 3]

\* C3: a request that supplies the required fields and leaves optional
\* lists absent (not passed, or None) succeeds, and the table of each such
\* list has only its header row, as for an empty list.
C3_AbsentListsAreEmpty ==
    (Ended /\ ValidRequest(WithEmptyLists(args)) /\ SaveNotRefused) =>
        /\ Succeeded
        /\ \A f \in OptionalLists :
              args[f].st \in {"absent", "none"} =>
                  RowCount(ShapeNamed(prs[TableSlide[f]],
                           IF f = "upcoming_milestones" THEN "upcoming"
                           ELSE f)) = 1

\* what holds of C3 on the code: upcoming_milestones left out or None gives
\* the header-only table
UpcomingAbsentIsEmpty ==
    (Len(prs) >= 3 /\ pc # "except" /\ seen.raised_at = ""
     /\ args.upcoming_milestones.st \in {"absent", "none"}) =>
        RowCount(ShapeNamed(prs[3], "upcoming")) = 1

----------------------------------------------------------------------------
(* C2 *)

\* C2: every list of length n renders min(n, cap) entries: min(n, 5)
\* bullets in the accomplishments box, and min(n, cap) data rows under one
\* header row in the priorities (5), risks (3), milestones (6) and upcoming
\* (3) tables; an empty list gives the header row alone and the build
\* still succeeds.
C2_RenderedCounts ==
    /\ (Len(prs) >= 2 /\ seen.raised_at \notin {"title", "summary"}) =>
          /\ Cardinality(Bullets(ShapeNamed(prs[2], "accomplishments")))
                = Min(Len(args.accomplishments.v), 5)
          /\ RowCount(ShapeNamed(prs[2], "priorities"))
                = Min(Len(args.priorities.v), 5) + 1
          /\ RowCount(ShapeNamed(prs[2], "risks"))
                = Min(Len(args.risks.v), 3) + 1
          /\ \A name \in {"priorities", "risks"} :
                ShapeNamed(prs[2], name).cells[<<0, 0>>] = <<"#">>
    /\ (Len(prs) >= 3 /\ seen.raised_at \notin {"title", "summary", "milestones"}) =>
          /\ RowCount(ShapeNamed(prs[3], "milestones"))
                = Min(Len(args.milestones.v), 6) + 1
          /\ RowCount(ShapeNamed(prs[3], "upcoming"))
                = Min(Len(args.upcoming_milestones.v), 3) + 1
          /\ ShapeNamed(prs[3], "milestones").cells[<<0, 0>>] = <<"#">>
          /\ ShapeNamed(prs[3], "upcoming").cells[<<0, 0>>] = <<"Milestone">>
    /\ (Ended /\ SaveNotRefused) => Succeeded

\* a call succeeded with more risks than the cap and so a cut table
C2_Witness ==
    /\ Succeeded
    /\ Len(args.risks.v) > 3
    /\ RowCount(ShapeNamed(prs[2], "risks")) = 4

\* a call succeeded with no risks at all
C2_WitnessEmpty ==
    /\ Succeeded
    /\ args.risks.v = <<>>
    /\ RowCount(ShapeNamed(prs[2], "risks")) = 1

----------------------------------------------------------------------------
(* C4 *)

\* C4: an exception raised while a slide is built, while the path is
\* synthesized or while the file is saved goes to the except clause and
\* the call returns {success: false, error: str(e)} with a non-empty
\* error; nothing propagates; an unwritable output_path ends so.
C4_Caught ==
    /\ (pc # "idle" /\ exc # NoExc) => pc = "except"
    /\ (Ended /\ seen.raised_at # "") =>
          /\ exc # NoExc
          /\ result = Returned([success |-> FALSE, error |-> exc.msg])
    /\ (Ended /\ seen.io = "denied") =>
          /\ FailedResult
          /\ result.value.error # ""

\* a call whose output_path was unwritable ended with the failure dict
C4_Witness ==
    /\ Ended
    /\ seen.raised_at = "save"
    /\ seen.io = "denied"
    /\ Unwritable(output_path.v)
    /\ FailedResult

\* a call ended after an exception in the second slide builder
C4_WitnessAssembly ==
    /\ Ended
    /\ seen.raised_at = "summary"
    /\ FailedResult

----------------------------------------------------------------------------
(* C5 *)

SuccessKeys == {"success", "file_path", "slides_created", "message"}
FailureKeys == {"success", "error"}

\* the dict is one of the two shapes
TwoShapes(d) ==
    IF d.success THEN DOMAIN d = SuccessKeys /\ d.slides_created = 4
    ELSE DOMAIN d = FailureKeys

\* C5: every call returns one of two shapes, {success: true, file_path,
\* slides_created: 4, message} or {success: false, error}, never a mix,
\* and every cause of failure gives the one failure shape.
C5_TwoShapes ==
    Ended => result.kind = "return" /\ TwoShapes(result.value)

\* what holds of C5 on the code: a call that returns, returns one of the
\* two shapes
ReturnedTwoShapes ==
    (Ended /\ result.kind = "return") => TwoShapes(result.value)

----------------------------------------------------------------------------
(* C6 *)

\* C6: a supplied output_path is the path saved to and reported; without
\* one the path is Tavant_WSR_<project name>_<timestamp>.pptx, from the
\* project name and the clock read in the call; file_path is the path
\* given to save.
C6_OutputPath ==
    Succeeded =>
        LET given == Bind(args).output_path
            path == result.value.file_path
            name == args.project_name.v
        IN /\ DOMAIN fs = {path}
           /\ fs[path].complete
           /\ Truthy(given) => path = given.v /\ seen.stamp = -1
           /\ ~Truthy(given) =>
                 /\ seen.stamp \in StartClock..clock
                 /\ path = <<"Tavant_WSR_">>
                           \o [i \in 1..Len(name) |->
                                  IF name[i] = " " THEN "_" ELSE name[i]]
                           \o <<"_">> \o strftime_stamp(seen.stamp)
                           \o <<".pptx">>

\* the call for project Apollo without an output_path succeeded
C6_Witness ==
    /\ Succeeded
    /\ args.output_path = Absent
    /\ args.project_name = Val(<<"Apollo">>)
    /\ result.value.file_path[2] = "Apollo"

\* a call with an output_path succeeded
C6_WitnessGiven ==
    /\ Succeeded
    /\ args.output_path = Val(<<"out.pptx">>)
    /\ result.value.file_path = <<"out.pptx">>

----------------------------------------------------------------------------
(* C7 *)

\* what every call does with the filesystem, however it ends
WritesOnceAtTheEnd ==
    /\ DOMAIN fs # {} =>
          /\ DOMAIN fs = {output_path.v}
          /\ Len(prs) = 4
          /\ seen.raised_at \in {"", "save"}
          /\ seen.io \in {"written", "broken"}
          /\ pc \in {"return", "except", "idle"}
    /\ Succeeded =>
          /\ seen.io = "written"
          /\ DOMAIN fs = {output_path.v}
          /\ fs[output_path.v] = File(TRUE, prs)

\* C7 as stated: at most one write, as the last step after the four slides;
\* a successful call writes exactly one document; a call that fails, at
\* any step, writes nothing; success only if the save completed.
C7_Original ==
    /\ WritesOnceAtTheEnd
    /\ (Ended /\ ~Succeeded) => DOMAIN fs = {}

\* C7 as amended: at most one write, as the last step after the four
\* slides; a successful call writes exactly one complete document; a call
\* that fails before the save, or whose save cannot create the file,
\* writes nothing; a call whose save breaks off fails and leaves an
\* incomplete file at the resolved path and nothing else; success only if
\* the save completed.
C7_WriteLast ==
    /\ WritesOnceAtTheEnd
    /\ (Ended /\ ~Succeeded /\ seen.io # "broken") => DOMAIN fs = {}
    /\ (Ended /\ seen.io = "broken") =>
          /\ FailedResult
          /\ DOMAIN fs = {output_path.v}
          /\ ~fs[output_path.v].complete

\* a call failed in its save and left an incomplete file
C7_Witness ==
    /\ FailedResult
    /\ seen.io = "broken"
    /\ DOMAIN fs = {output_path.v}

\* a call failed while a slide was built and wrote nothing
C7_WitnessAssembly ==
    /\ FailedResult
    /\ seen.raised_at = "milestones"
    /\ DOMAIN fs = {}

----------------------------------------------------------------------------
(* C9 *)

\* row k of the table holds the k-th record of list: its number in the
\* index column if the table has one, then the fields in the order of the
\* columns, an absent field as the empty string; and no write left the
\* table
PrefixRendered(table, list, cap, indexed, fields) ==
    /\ \A k \in 1..Min(Len(list), cap) :
          /\ indexed => table.cells[<<k, 0>>] = <<Digits[k + 1]>>
          /\ \A j \in 1..Len(fields) :
                table.cells[<<k, IF indexed THEN j ELSE j - 1>>]
                   = IF fields[j] \in DOMAIN list[k] THEN list[k][fields[j]]
                     ELSE <<>>
    /\ \A i \in DOMAIN table.written :
          /\ table.written[i][1] < RowCount(table)
          /\ table.written[i][2] < table.cols

\* C9: data row k of each table holds the fields of the k-th input record,
\* for k up to min(|L|, cap), the index column holds k, every cell written
\* lies inside the table, and a missing field renders as the empty string
\* without failing the call.
C9_PrefixInOrder ==
    /\ (Len(prs) >= 2 /\ seen.raised_at \notin {"title", "summary"}) =>
          /\ PrefixRendered(ShapeNamed(prs[2], "priorities"),
                            args.priorities.v, 5, TRUE,
                            <<"description", "owner">>)
          /\ PrefixRendered(ShapeNamed(prs[2], "risks"), args.risks.v, 3,
                            TRUE, <<"description", "owner", "target_date",
                                    "status">>)
    /\ (Len(prs) >= 3 /\ seen.raised_at \notin {"title", "summary", "milestones"}) =>
          /\ PrefixRendered(ShapeNamed(prs[3], "milestones"),
                            args.milestones.v, 6, TRUE,
                            <<"description", "target_date", "status">>)
          /\ PrefixRendered(ShapeNamed(prs[3], "upcoming"),
                            args.upcoming_milestones.v, 3, FALSE,
                            <<"description", "target_date", "owner">>)
    /\ (Ended /\ SaveNotRefused) => Succeeded

\* a call succeeded with more upcoming milestones than the cap, the first
\* of them without a description
C9_Witness ==
    /\ Succeeded
    /\ Len(args.upcoming_milestones.v) > 3
    /\ "description" \notin DOMAIN args.upcoming_milestones.v[1]
    /\ ShapeNamed(prs[3], "upcoming").cells[<<1, 0>>] = <<>>
    /\ ShapeNamed(prs[3], "upcoming").cells[<<3, 0>>]
          = args.upcoming_milestones.v[3]["description"]

----------------------------------------------------------------------------
(* C8 *)

\* the call built its four slides
Assembled(c) ==
    Len(c.prs) = 4 /\ c.seen.raised_at \in {"", "path", "save"}

\* calls a and b got the same request but for contact_info, which a left
\* out or empty and b gave, and read the same date
ContactPair(a, b) ==
    /\ Assembled(a) /\ Assembled(b)
    /\ [a.args EXCEPT !.contact_info = Absent]
          = [b.args EXCEPT !.contact_info = Absent]
    /\ DayOf(a.seen.date) = DayOf(b.seen.date)
    /\ a.args.contact_info \in {Absent, None, Val(<<>>)}
    /\ b.args.contact_info.st = "val"
    /\ b.args.contact_info.v # <<>>

\* C8: without contact_info the closing slide has no contact box and
\* nothing else differs: the first three slides and the other shapes of the
\* closing slide are those of the same request with a contact_info, which
\* adds one text box holding that string.
C8_ContactOnly ==
    \A i, j \in DOMAIN history :
        ContactPair(history[i], history[j]) =>
            LET a == history[i].prs
                b == history[j].prs
            IN /\ SubSeq(a, 1, 3) = SubSeq(b, 1, 3)
               /\ [k \in 1..Len(a[4]) |-> a[4][k].name]
                     = <<"background", "accent_bar", "thank_you", "brand">>
               /\ Len(b[4]) = 5
               /\ SubSeq(b[4], 1, 4) = a[4]
               /\ b[4][5].kind = "textbox"
               /\ b[4][5].name = "contact"
               /\ Len(b[4][5].paras) = 1
               /\ b[4][5].paras[1].text = history[j].args.contact_info.v

\* two calls of one run differed in contact_info only
C8_Witness ==
    \E i, j \in DOMAIN history :
        /\ ContactPair(history[i], history[j])
        /\ history[i].result.kind = "return"
        /\ history[i].result.value.success
        /\ history[j].result.value.success

----------------------------------------------------------------------------
(* C10 *)

\* calls a and b got the same arguments and the same answers from the
\* clock and the filesystem, as far as both asked
SameInputs(a, b) ==
    /\ a.args = b.args
    /\ a.seen.date = b.seen.date
    /\ a.seen.stamp = b.seen.stamp \/ -1 \in {a.seen.stamp, b.seen.stamp}
    /\ a.seen.io = b.seen.io \/ "" \in {a.seen.io, b.seen.io}

\* C10: calls are independent: in any sequence of calls, the deck and the
\* result of a call depend on its own arguments and clock readings (and on
\* what the filesystem answers), not on the calls before it; the palette
\* is never modified.
C10_Independent ==
    /\ TAVANT_COLORS = [primary |-> <<0, 0, 0>>, accent |-> <<242, 101, 34>>,
                        white |-> <<255, 255, 255>>, dark |-> <<51, 51, 51>>,
                        light |-> <<245, 245, 245>>]
    /\ \A i, j \in DOMAIN history :
          SameInputs(history[i], history[j]) =>
              /\ history[i].prs = history[j].prs
              /\ history[i].result = history[j].result
              /\ history[i].seen = history[j].seen

\* the second call of a run got the inputs of the first and succeeded
C10_Witness ==
    /\ Len(history) >= 2
    /\ SameInputs(history[1], history[2])
    /\ history[2].result.kind = "return"
    /\ history[2].result.value.success
    /\ Len(history[2].prs) = 4

----------------------------------------------------------------------------
(* C11 *)

\* call c left the output path to the call and came to the save
Synthesized(c) ==
    /\ c.args.output_path \in {Absent, None, Val(<<>>)}
    /\ c.seen.io # ""

\* names n and m are equal once every space is an underscore
SameNormalised(n, m) ==
    /\ Len(n) = Len(m)
    /\ \A k \in 1..Len(n) :
          \/ n[k] = m[k]
          \/ {n[k], m[k]} = {" ", "_"}

\* calls a and b read the clock within the same second
SameSecond(a, b) == SecondOf(a.seen.stamp) = SecondOf(b.seen.stamp)

\* call c returned the success dict
Success(c) == c.result.kind = "return" /\ c.result.value.success

\* call c wrote to its path, in full or in part
Wrote(c) == c.seen.io \in {"written", "broken"}

\* the file call c left at its path
Left(c) ==
    IF c.seen.io = "written" THEN File(TRUE, c.prs) ELSE File(FALSE, <<>>)

\* the last call of the history that wrote to the path of call i
LastWriter(i) ==
    CHOOSE k \in DOMAIN history :
        /\ Wrote(history[k])
        /\ history[k].seen.path = history[i].seen.path
        /\ \A l \in DOMAIN history :
              Wrote(history[l]) /\ history[l].seen.path = history[i].seen.path
                  => l <= k

\* C11: when output_path is absent or empty, two calls resolve to the same
\* path if and only if their project names are equal once every space is an
\* underscore and they read the clock in the same second; a successful call
\* returns that path; and between calls the filesystem holds one file for
\* each such path, the one its last writer left, so a later call replaces an
\* earlier call's file exactly when the two paths are the same.
C11_SamePathIff ==
    /\ \A i, j \in DOMAIN history :
          Synthesized(history[i]) /\ Synthesized(history[j]) =>
              (history[i].seen.path = history[j].seen.path
                  <=> /\ SameNormalised(history[i].args.project_name.v,
                                        history[j].args.project_name.v)
                      /\ SameSecond(history[i], history[j]))
    /\ \A i \in DOMAIN history :
          Synthesized(history[i]) /\ Success(history[i]) =>
              history[i].result.value.file_path = history[i].seen.path
    /\ pc = "idle" =>
          /\ DOMAIN fs = {history[i].seen.path :
                             i \in {k \in DOMAIN history : Wrote(history[k])}}
          /\ \A i \in DOMAIN history :
                Wrote(history[i]) =>
                    fs[history[i].seen.path] = Left(history[LastWriter(i)])

\* a second call under a name that differs from the first only in a space,
\* at a later clock reading within the same second, replaced the file of
\* the first with its own deck
C11_Witness ==
    /\ Len(history) >= 2
    /\ pc = "idle"
    /\ Synthesized(history[1]) /\ Synthesized(history[2])
    /\ Success(history[1]) /\ Success(history[2])
    /\ history[1].args.project_name # history[2].args.project_name
    /\ history[1].seen.stamp # history[2].seen.stamp
    /\ history[1].seen.path = history[2].seen.path
    /\ history[1].prs # history[2].prs
    /\ Cardinality(DOMAIN fs) = 1
    /\ fs[history[1].seen.path] = File(TRUE, history[2].prs)

\* a second call under the name of the first, a second later, wrote a file
\* of its own and left the file of the first as it was
C11_WitnessDistinct ==
    /\ Len(history) >= 2
    /\ pc = "idle"
    /\ Success(history[1]) /\ Success(history[2])
    /\ history[1].args = history[2].args
    /\ ~SameSecond(history[1], history[2])
    /\ history[1].seen.path # history[2].seen.path
    /\ Cardinality(DOMAIN fs) = 2
    /\ fs[history[1].seen.path] = File(TRUE, history[1].prs)

====
